---- MODULE Spec2Model ----
(***************************************************************************)
(* GeoScoreTool: the React component that collects a website URL, asks the *)
(* remote scoring endpoint for a GEO score and falls back to a local       *)
(* heuristic score when the endpoint fails.                                 *)
(*                                                                         *)
(* Strings that the code parses (the URL input, host names, brand names,   *)
(* logo URLs) are sequences of tokens: a token is one character, except    *)
(* the scheme prefix "https://" which is one token.  Messages that the     *)
(* code only stores and compares are TLA+ strings.                         *)
(***************************************************************************)
EXTENDS Integers, Sequences, FiniteSets, TLC

(***************************************************************************)
(* Bounds of the model.                                                    *)
(***************************************************************************)
\* number of calculations one behaviour may submit
MaxCalcs == 2

(***************************************************************************)
(* Program constants.                                                      *)
(***************************************************************************)
RecallRange == 25
RecallBase == 10
SeoRange == 10
SeoBase == 10
PlatformRange == 5
PlatformBase == 5
PlatformCap == 15
WikiScore == 20
SchemaScore == 5

(***************************************************************************)
(* Token strings.                                                          *)
(***************************************************************************)
Scheme == "https://"
EmptyStr == << >>
FaviconPrefix == "https://www.google.com/s2/favicons?sz=128&domain="
WwwDot == <<"w", "w", "w", ".">>

\* String.prototype.toLowerCase on one token
LowerTok(t) == CASE t = "A" -> "a" [] t = "B" -> "b" [] t = "W" -> "w" [] OTHER -> t

toLowerCase(s) == [i \in 1..Len(s) |-> LowerTok(s[i])]

\* the first index at which pat occurs in s, 0 when it does not occur
IndexOf(s, pat) ==
  LET hits == {i \in 1..(Len(s) - Len(pat) + 1) : SubSeq(s, i, i + Len(pat) - 1) = pat}
  IN IF hits = {} THEN 0 ELSE CHOOSE i \in hits : \A j \in hits : i <= j

\* String.prototype.replace(pat, '') with a string pattern: the first occurrence only
RemoveFirst(s, pat) ==
  LET i == IndexOf(s, pat)
  IN IF i = 0 THEN s ELSE SubSeq(s, 1, i - 1) \o SubSeq(s, i + Len(pat), Len(s))

\* String.prototype.split(sep)[0]: the text before the first separator
FirstPart(s, sep) ==
  LET i == IndexOf(s, <<sep>>)
  IN IF i = 0 THEN s ELSE SubSeq(s, 1, i - 1)

\* String.prototype.split(sep).length
PartCount(s, sep) == Cardinality({i \in 1..Len(s) : s[i] = sep}) + 1

(***************************************************************************)
(* new URL(input): over the token alphabet an input parses exactly when it *)
(* starts with the scheme and names a host; the host ends at the first "/".*)
(***************************************************************************)
HostPart(s) == FirstPart(SubSeq(s, 2, Len(s)), "/")

IsUrl(s) == Len(s) >= 2 /\ s[1] = Scheme /\ HostPart(s) # EmptyStr

\* URL.hostname: the host, lower-cased by the parser
Hostname(s) == toLowerCase(HostPart(s))

extractBrandName(inputUrl) ==
  IF IsUrl(inputUrl)
  THEN LET hostname == RemoveFirst(Hostname(inputUrl), WwwDot)
       IN IF PartCount(hostname, ".") >= 2 THEN FirstPart(hostname, ".") ELSE hostname
  ELSE FirstPart(toLowerCase(inputUrl), ".")

fetchLogo(inputUrl) ==
  IF IsUrl(inputUrl) THEN <<FaviconPrefix>> \o Hostname(inputUrl) ELSE EmptyStr

(***************************************************************************)
(* The inputs a user types or pastes into the URL field.                   *)
(***************************************************************************)
UrlA == <<Scheme, "a", ".", "c">>
UrlW == <<Scheme, "w", "w", "w", ".", "B", ".", "c", "/", "a">>
Bare == <<"B", ".", "c">>
Urls == {EmptyStr, UrlA, UrlW, Bare}

(***************************************************************************)
(* What the network can answer.                                            *)
(***************************************************************************)
FetchFailed == "Failed to fetch"
SyntaxErrorMessage == "Unexpected token < in JSON at position 0"
FailedToCalculate == "Failed to calculate score"
ErrorOccurred == "An error occurred while calculating the score"
QuotaExceeded == "quota exceeded"

\* useState(null)
Null == [null |-> TRUE]

BodyFull ==
  [brand |-> <<"a">>, total |-> 72,
   breakdown |-> [recall |-> 30, wiki |-> 20, seo |-> 12, platforms |-> 10],
   suggestions |-> <<"add structured data">>,
   history_links |-> <<[url |-> "https://h/1", title |-> "first"], [url |-> "https://h/2"]>>]

BodyPlain ==
  [brand |-> <<"b">>, total |-> 40,
   breakdown |-> [recall |-> 20, wiki |-> 0, seo |-> 10, platforms |-> 10],
   suggestions |-> << >>, history_links |-> << >>]

\* the result of response.json(): a parsed value, or a SyntaxError
Parsed(v) == [json |-> TRUE, value |-> v]
Unparseable == [json |-> FALSE]

\* the answers to fetch('/api/check-score'): a Response, or a rejection
RemoteAnswers ==
  { [type |-> "response", ok |-> TRUE, body |-> Parsed(BodyFull)],
    [type |-> "response", ok |-> TRUE, body |-> Parsed(BodyPlain)],
    [type |-> "response", ok |-> TRUE, body |-> Unparseable],
    [type |-> "response", ok |-> FALSE, body |-> Parsed([detail |-> QuotaExceeded])],
    [type |-> "response", ok |-> FALSE, body |-> Parsed([status |-> "error"])],
    [type |-> "response", ok |-> FALSE, body |-> Unparseable],
    [type |-> "reject", message |-> FetchFailed],
    [type |-> "reject", message |-> ""] }

\* the answers to the Wikipedia query: a rejection, an unparseable body, a body
\* without query, a query without pages, or the ids of the pages
WikiAnswers ==
  { [kind |-> "reject"], [kind |-> "badJson"], [kind |-> "noQuery"], [kind |-> "noPages"],
    [kind |-> "pages", ids |-> <<"-1">>], [kind |-> "pages", ids |-> <<"736">>] }

\* the answers of the relay: a rejection, or a text with or without 'schema.org'
SchemaAnswers == {"reject", "withMarker", "withoutMarker"}

\* errorData.detail of a parsed error body; a missing field is falsy like ''
Detail(v) == IF "detail" \in DOMAIN v THEN v.detail ELSE ""

\* the primary path of calculateScore succeeds
PrimaryOk(r) == r.type = "response" /\ r.ok /\ r.body.json

\* err.message of what the try block throws
ThrownMessage(r) ==
  IF r.type = "reject" THEN r.message
  ELSE IF ~r.body.json THEN SyntaxErrorMessage
  ELSE IF Detail(r.body.value) # "" THEN Detail(r.body.value) ELSE FailedToCalculate

\* a catch block that ignores err.message
CaughtMessageGeneric(r) == ErrorOccurred

\* the argument of setError in the catch block
CaughtMessage(r) == IF ThrownMessage(r) # "" THEN ThrownMessage(r) ELSE ErrorOccurred

\* a checkWikipedia whose catch block returns the score
checkWikipediaCatchScores(a) ==
  IF a.kind = "noPages" \/ (a.kind = "pages" /\ a.ids # << >> /\ a.ids[1] = "-1")
  THEN 0 ELSE WikiScore

checkWikipedia(a) ==
  IF a.kind = "pages" /\ (a.ids = << >> \/ a.ids[1] # "-1") THEN WikiScore ELSE 0

checkSchemaMarkup(a) == IF a = "withMarker" THEN SchemaScore ELSE 0

Min(a, b) == IF a <= b THEN a ELSE b

\* Math.floor(Math.random() * n)
RandomBelow(n) == 0..(n - 1)

\* the draws the component model explores: both ends of the range
Sample(n) == {0, n - 1}

\* the draw of line 83 with Math.ceil in place of Math.floor
RecallOffByOne(k) == k + 1 + RecallBase

Recall(k) == k + RecallBase

Seo(k) == k + SeoBase

Platforms(k, schemaScore) == Min(PlatformCap, k + PlatformBase + schemaScore)

\* a total that leaves the platforms score out
TotalOmitsPlatforms(recall, wiki, seo, platforms) == recall + wiki + seo

Total(recall, wiki, seo, platforms) == recall + wiki + seo + platforms

\* the object calculateLocalScore passes to setScoreData
LocalScore(brand, recall, wiki, seo, platforms) ==
  [brand |-> brand, recall |-> recall, wiki |-> wiki, seo |-> seo, platforms |-> platforms,
   total |-> Total(recall, wiki, seo, platforms),
   breakdown |-> [recall |-> recall, wiki |-> wiki, seo |-> seo, platforms |-> platforms],
   suggestions |-> << >>, history_links |-> << >>]

(***************************************************************************)
(* State.  The six useState cells keep the source's names.  calcs holds    *)
(* the calculateScore invocations that have not returned, each with the    *)
(* url its closure captured and the locals it carries across its awaits.   *)
(* posts is the log of request bodies sent to the scoring endpoint.        *)
(* mounted is false once a render has thrown: React then removes the       *)
(* component, so no handler can run and no setter has an effect; the cells *)
(* keep the values that the throwing render was given.                     *)
(* History variables: resetAt is the length of posts at the last reset;    *)
(* scoreUrl is the url of the calculation that set scoreData; the field    *)
(* sub of lastOp is the answer a sub-check received;                       *)
(* lastOp names the last operation, the answer it received and the         *)
(* calculation it acted on; the fields answer and afterError of a          *)
(* calculation record the answer of the endpoint and whether an error was  *)
(* shown when the calculation was accepted.                                *)
(***************************************************************************)
VARIABLES url, scoreData, logoUrl, isCalculating, lastCalculatedUrl, error,
          mounted, calcs, posts, resetAt, scoreUrl, lastOp

cells == <<url, scoreData, logoUrl, isCalculating, lastCalculatedUrl, error>>
vars == <<url, scoreData, logoUrl, isCalculating, lastCalculatedUrl, error,
          mounted, calcs, posts, resetAt, scoreUrl, lastOp>>

NoAnswer == [type |-> "none"]
NoCalc == [id |-> 0]
Op(name) == [op |-> name, answer |-> NoAnswer, calc |-> NoCalc, sub |-> NoAnswer]

\* renderScoreCard returns without throwing: new URL(url) is evaluated only
\* when scoreData is set
RenderOk(u, data) == data = Null \/ IsUrl(u)

Init ==
  /\ url = EmptyStr
  /\ scoreData = Null
  /\ logoUrl = EmptyStr
  /\ isCalculating = FALSE
  /\ lastCalculatedUrl = EmptyStr
  /\ error = ""
  /\ mounted = TRUE
  /\ calcs = {}
  /\ posts = << >>
  /\ resetAt = 0
  /\ scoreUrl = EmptyStr
  /\ lastOp = Op("init")

\* an onChange that also forgets the last calculated url
SetUrlForgetsLast(v) ==
  /\ mounted
  /\ v # url
  /\ url' = v
  /\ lastCalculatedUrl' = EmptyStr
  /\ mounted' = RenderOk(v, scoreData)
  /\ lastOp' = Op("setUrl")
  /\ UNCHANGED <<scoreData, logoUrl, isCalculating, error, calcs, posts, resetAt, scoreUrl>>

\* onChange of the input: setUrl(e.target.value)
SetUrl(v) ==
  /\ mounted
  /\ v # url
  /\ url' = v
  /\ mounted' = RenderOk(v, scoreData)
  /\ lastOp' = Op("setUrl")
  /\ UNCHANGED <<scoreData, logoUrl, isCalculating, lastCalculatedUrl, error,
                 calcs, posts, resetAt, scoreUrl>>

\* the Calculate button is disabled
ButtonDisabled == isCalculating \/ url = EmptyStr

\* the early return of calculateScore
EarlyReturnInFlightOnly == isCalculating

EarlyReturn == isCalculating \/ url = lastCalculatedUrl

\* a click on Calculate with setError('') moved in front of the early return
computeScoreClearsErrorFirst ==
  /\ mounted
  /\ lastOp' = Op("computeScore")
  /\ error' = ""
  /\ IF ButtonDisabled \/ EarlyReturn
     THEN UNCHANGED <<url, scoreData, logoUrl, isCalculating, lastCalculatedUrl,
                      mounted, calcs, posts, resetAt, scoreUrl>>
     ELSE /\ Len(posts) < MaxCalcs
          /\ isCalculating' = TRUE
          /\ lastCalculatedUrl' = url
          /\ posts' = Append(posts, [brand_name |-> extractBrandName(url), url |-> url])
          /\ calcs' = calcs \cup {[id |-> Len(posts) + 1, url |-> url, pc |-> "fetch",
                                   answer |-> NoAnswer, afterError |-> error # "",
                                   recall |-> 0, wiki |-> 0]}
          /\ UNCHANGED <<url, scoreData, logoUrl, mounted, resetAt, scoreUrl>>

\* a click on Calculate without setError('')
computeScoreKeepsError ==
  /\ mounted
  /\ lastOp' = Op("computeScore")
  /\ IF ButtonDisabled \/ EarlyReturn
     THEN UNCHANGED <<url, scoreData, logoUrl, isCalculating, lastCalculatedUrl, error,
                      mounted, calcs, posts, resetAt, scoreUrl>>
     ELSE /\ Len(posts) < MaxCalcs
          /\ isCalculating' = TRUE
          /\ lastCalculatedUrl' = url
          /\ posts' = Append(posts, [brand_name |-> extractBrandName(url), url |-> url])
          /\ calcs' = calcs \cup {[id |-> Len(posts) + 1, url |-> url, pc |-> "fetch",
                                   answer |-> NoAnswer, afterError |-> error # "",
                                   recall |-> 0, wiki |-> 0]}
          /\ UNCHANGED <<url, scoreData, logoUrl, error, mounted, resetAt, scoreUrl>>

\* a click on Calculate: nothing when the button is disabled or calculateScore
\* returns early; else calculateScore runs up to its await of fetch
computeScore ==
  /\ mounted
  /\ lastOp' = Op("computeScore")
  /\ IF ButtonDisabled \/ EarlyReturn
     THEN UNCHANGED <<url, scoreData, logoUrl, isCalculating, lastCalculatedUrl, error,
                      mounted, calcs, posts, resetAt, scoreUrl>>
     ELSE /\ Len(posts) < MaxCalcs
          /\ isCalculating' = TRUE
          /\ error' = ""
          /\ lastCalculatedUrl' = url
          /\ posts' = Append(posts, [brand_name |-> extractBrandName(url), url |-> url])
          /\ calcs' = calcs \cup {[id |-> Len(posts) + 1, url |-> url, pc |-> "fetch",
                                   answer |-> NoAnswer, afterError |-> error # "",
                                   recall |-> 0, wiki |-> 0]}
          /\ UNCHANGED <<url, scoreData, logoUrl, mounted, resetAt, scoreUrl>>

\* the scoring endpoint answers calculation c with r; k is the draw of line 83.
\* On success the try block and the finally block run; on failure the catch
\* block runs calculateLocalScore up to its await of checkWikipedia.
RemoteResponds(c, r, k) ==
  /\ mounted
  /\ c \in calcs
  /\ c.pc = "fetch"
  /\ lastOp' = [op |-> "response", answer |-> r, calc |-> c, sub |-> NoAnswer]
  /\ logoUrl' = fetchLogo(c.url)
  /\ IF PrimaryOk(r)
     THEN /\ scoreData' = r.body.value
          /\ isCalculating' = FALSE
          /\ calcs' = calcs \ {c}
          /\ scoreUrl' = c.url
          /\ UNCHANGED error
     ELSE /\ error' = CaughtMessage(r)
          /\ calcs' = (calcs \ {c}) \cup
                        {[c EXCEPT !.pc = "wiki", !.answer = r, !.recall = Recall(k)]}
          /\ UNCHANGED <<scoreData, isCalculating, scoreUrl>>
  /\ mounted' = RenderOk(url, scoreData')
  /\ UNCHANGED <<url, lastCalculatedUrl, posts, resetAt>>

\* the Wikipedia query of calculation c answers a
WikiResolves(c, a) ==
  /\ mounted
  /\ c \in calcs
  /\ c.pc = "wiki"
  /\ lastOp' = [op |-> "wiki", answer |-> c.answer, calc |-> c, sub |-> a]
  /\ calcs' = (calcs \ {c}) \cup {[c EXCEPT !.pc = "schema", !.wiki = checkWikipedia(a)]}
  /\ UNCHANGED <<url, scoreData, logoUrl, isCalculating, lastCalculatedUrl, error,
                 mounted, posts, resetAt, scoreUrl>>

\* the relay answers a to calculation c; k1 and k2 are the draws of lines 86 and
\* 87.  calculateLocalScore sets the result and the finally block of
\* calculateScore clears isCalculating.
SchemaResolves(c, a, k1, k2) ==
  /\ mounted
  /\ c \in calcs
  /\ c.pc = "schema"
  /\ lastOp' = [op |-> "schema", answer |-> c.answer, calc |-> c, sub |-> a]
  /\ scoreData' = LocalScore(extractBrandName(c.url), c.recall, c.wiki, Seo(k1),
                             Platforms(k2, checkSchemaMarkup(a)))
  /\ isCalculating' = FALSE
  /\ calcs' = calcs \ {c}
  /\ mounted' = RenderOk(url, scoreData')
  /\ scoreUrl' = c.url
  /\ UNCHANGED <<url, logoUrl, lastCalculatedUrl, error, posts, resetAt>>

\* a Reset that also clears isCalculating
resetScoreClearsInFlight ==
  /\ mounted
  /\ lastOp' = Op("resetScore")
  /\ url' = EmptyStr
  /\ scoreData' = Null
  /\ logoUrl' = EmptyStr
  /\ lastCalculatedUrl' = EmptyStr
  /\ error' = ""
  /\ isCalculating' = FALSE
  /\ resetAt' = Len(posts)
  /\ scoreUrl' = EmptyStr
  /\ UNCHANGED <<mounted, calcs, posts>>

\* a Reset that leaves lastCalculatedUrl alone
resetScoreKeepsLast ==
  /\ mounted
  /\ lastOp' = Op("resetScore")
  /\ url' = EmptyStr
  /\ scoreData' = Null
  /\ logoUrl' = EmptyStr
  /\ error' = ""
  /\ resetAt' = Len(posts)
  /\ scoreUrl' = EmptyStr
  /\ UNCHANGED <<lastCalculatedUrl, isCalculating, mounted, calcs, posts>>

\* a click on Reset
resetScore ==
  /\ mounted
  /\ lastOp' = Op("resetScore")
  /\ url' = EmptyStr
  /\ scoreData' = Null
  /\ logoUrl' = EmptyStr
  /\ lastCalculatedUrl' = EmptyStr
  /\ error' = ""
  /\ resetAt' = Len(posts)
  /\ scoreUrl' = EmptyStr
  /\ UNCHANGED <<isCalculating, mounted, calcs, posts>>

\* the sub-check answers the component model explores: one that fails and
\* one that scores
WikiSample == {[kind |-> "reject"], [kind |-> "pages", ids |-> <<"736">>]}

SchemaSample == {"reject", "withMarker"}

Next ==
  \/ \E v \in Urls : SetUrl(v)
  \/ computeScore
  \/ \E c \in calcs, r \in RemoteAnswers, k \in Sample(RecallRange) : RemoteResponds(c, r, k)
  \/ \E c \in calcs, a \in WikiSample : WikiResolves(c, a)
  \/ \E c \in calcs, a \in SchemaSample, k1 \in Sample(SeoRange), k2 \in Sample(PlatformRange) :
       SchemaResolves(c, a, k1, k2)
  \/ resetScore

Spec == Init /\ [][Next]_vars

(***************************************************************************)
(* The fallback scorer over every draw and every answer of the two         *)
(* sub-checks: the states right after the primary path of a calculation    *)
(* has failed, with the draw of line 83 taken from its whole range, and    *)
(* the two steps that finish calculateLocalScore.                          *)
(***************************************************************************)
InitLocal ==
  \E u \in Urls \ {EmptyStr}, r \in {a \in RemoteAnswers : ~PrimaryOk(a)},
     k \in RandomBelow(RecallRange) :
    LET c == [id |-> 1, url |-> u, pc |-> "fetch", answer |-> NoAnswer,
              afterError |-> FALSE, recall |-> 0, wiki |-> 0]
    IN /\ url = u
       /\ scoreData = Null
       /\ logoUrl = fetchLogo(u)
       /\ isCalculating = TRUE
       /\ lastCalculatedUrl = u
       /\ error = CaughtMessage(r)
       /\ mounted = TRUE
       /\ calcs = {[c EXCEPT !.pc = "wiki", !.answer = r, !.recall = Recall(k)]}
       /\ posts = <<[brand_name |-> extractBrandName(u), url |-> u]>>
       /\ resetAt = 0
       /\ scoreUrl = EmptyStr
       /\ lastOp = [op |-> "response", answer |-> r, calc |-> c, sub |-> NoAnswer]

NextLocal ==
  \/ \E c \in calcs, a \in WikiAnswers : WikiResolves(c, a)
  \/ \E c \in calcs, a \in SchemaAnswers, k1 \in RandomBelow(SeoRange),
        k2 \in RandomBelow(PlatformRange) : SchemaResolves(c, a, k1, k2)

SpecLocal == InitLocal /\ [][NextLocal]_vars

(***************************************************************************)
(* Properties.                                                             *)
(***************************************************************************)
\* the url of the latest submission since the last reset
SubmittedSinceReset == Len(posts) > resetAt

\* scoreData is an object built by calculateLocalScore
IsLocalScore(d) == d # Null /\ "recall" \in DOMAIN d

\* C1: at most one calculation is in flight in every state, and a computeScore
\* invoked while a calculation has not finished submits nothing and queues
\* nothing.
SingleFlight ==
  [][/\ Cardinality(calcs') <= 1
     /\ (lastOp'.op = "computeScore" /\ calcs # {}) => (posts' = posts /\ calcs' = calcs)]_vars

\* C1 witness: computeScore was invoked with a fresh URL after a reset while
\* the calculation submitted before the reset was still in flight.
SingleFlightWitness ==
  /\ lastOp.op = "computeScore"
  /\ Cardinality(calcs) = 1
  /\ resetAt = Len(posts)
  /\ url # EmptyStr
  /\ mounted

\* C2: computeScore invoked with the URL of the latest submission, with no
\* reset since that submission, submits nothing and changes nothing, whether
\* that calculation is outstanding, has succeeded or has fallen back.
NoDuplicateSubmission ==
  [][(lastOp'.op = "computeScore" /\ SubmittedSinceReset /\ url = posts[Len(posts)].url)
       => UNCHANGED <<cells, posts, calcs>>]_vars

\* C2 witness: computeScore was invoked again with the same URL after its
\* calculation had failed and fallen back.
NoDuplicateSubmissionWitness ==
  /\ lastOp.op = "computeScore"
  /\ calcs = {}
  /\ SubmittedSinceReset
  /\ url = posts[Len(posts)].url
  /\ error # ""
  /\ IsLocalScore(scoreData)

\* the URL in the input was submitted before the last reset and nothing has
\* been submitted since
ResubmitAfterReset ==
  /\ url # EmptyStr
  /\ resetAt = Len(posts)
  /\ \E i \in 1..resetAt : posts[i].url = url

\* C3 as stated: after resetScore, computeScore(u) for a URL u calculated
\* before the reset is accepted and submits a new request.
ResetPermitsRepeat ==
  [][(lastOp'.op = "computeScore" /\ ResubmitAfterReset) => Len(posts') = Len(posts) + 1]_vars

\* C3 amended: after resetScore, computeScore(u) for a URL u calculated before
\* the reset is accepted and submits a new request when no calculation is in
\* flight.
ResetPermitsRepeatWhenIdle ==
  [][(lastOp'.op = "computeScore" /\ ResubmitAfterReset /\ calcs = {})
       => /\ Len(posts') = Len(posts) + 1
          /\ posts'[Len(posts')].url = url
          /\ Cardinality(calcs') = 1]_vars

\* C3 witness: the URL submitted before the reset has just been submitted
\* again.
ResetPermitsRepeatWitness ==
  /\ lastOp.op = "computeScore"
  /\ resetAt >= 1
  /\ Len(posts) = resetAt + 1
  /\ \E i \in 1..resetAt : posts[i].url = posts[Len(posts)].url
  /\ \E c \in calcs : c.id = Len(posts) /\ c.pc = "fetch"

\* the cells resetScore sets are at their initial values
ClearedCells(u, d, l, last, e) ==
  u = EmptyStr /\ d = Null /\ l = EmptyStr /\ last = EmptyStr /\ e = ""

\* C4 as stated: right after resetScore every field is at its initial value,
\* inFlight = false included.
ResetRestoresInitial ==
  [][lastOp'.op = "resetScore"
       => /\ ClearedCells(url', scoreData', logoUrl', lastCalculatedUrl', error')
          /\ isCalculating' = FALSE]_vars

\* C4 amended: right after resetScore the input, ScoreResult, logo URL, error
\* and lastRequestedUrl are at their initial values and inFlight is what it
\* was before: false only if no calculation was in flight.
ResetClearsAllButInFlight ==
  [][lastOp'.op = "resetScore"
       => /\ ClearedCells(url', scoreData', logoUrl', lastCalculatedUrl', error')
          /\ isCalculating' = isCalculating
          /\ calcs' = calcs]_vars

\* C4 witness: resetScore has run while a calculation was in flight.
ResetInFlightWitness ==
  /\ lastOp.op = "resetScore"
  /\ isCalculating
  /\ calcs # {}
  /\ ClearedCells(url, scoreData, logoUrl, lastCalculatedUrl, error)

\* the answer is an error status whose parsed body carries a detail
HasDetail(r) ==
  r.type = "response" /\ ~r.ok /\ r.body.json /\ "detail" \in DOMAIN r.body.value

\* C5: when the fallback finishes a calculation whose primary path failed and
\* no reset came after its submission, the error is that failure's message
\* (the detail of the response when it has one, else a fixed or thrown
\* message, never empty) and the ScoreResult is the locally computed result
\* with empty suggestions and history_links.
FallbackKeepsError ==
  (lastOp.op = "schema" /\ resetAt < lastOp.calc.id) =>
    /\ ~PrimaryOk(lastOp.answer)
    /\ error # ""
    /\ HasDetail(lastOp.answer) => error = lastOp.answer.body.value.detail
    /\ ~HasDetail(lastOp.answer) =>
         error \in {FailedToCalculate, SyntaxErrorMessage, FetchFailed, ErrorOccurred}
    /\ IsLocalScore(scoreData)
    /\ scoreData.suggestions = << >>
    /\ scoreData.history_links = << >>
    /\ ~isCalculating

\* C5 witness: the endpoint answered an error status with detail "quota
\* exceeded" and the fallback has finished.
FallbackKeepsErrorWitness ==
  /\ lastOp.op = "schema"
  /\ resetAt < lastOp.calc.id
  /\ HasDetail(lastOp.answer)
  /\ error = QuotaExceeded
  /\ IsLocalScore(scoreData)
  /\ mounted

\* C6: when the endpoint answers a success status with a parseable body, the
\* calculation finishes with the ScoreResult equal to that body, the logo URL
\* derived from the requested URL and no error, also when an error was shown
\* when the calculation was accepted.
SuccessAdoptsBody ==
  (lastOp.op = "response" /\ PrimaryOk(lastOp.answer)) =>
    /\ scoreData = lastOp.answer.body.value
    /\ logoUrl = fetchLogo(posts[lastOp.calc.id].url)
    /\ error = ""
    /\ ~isCalculating
    /\ calcs = {}

\* C6 witness: a success answer replaced the fallback result and the error of
\* the calculation before it.
SuccessAdoptsBodyWitness ==
  /\ lastOp.op = "response"
  /\ PrimaryOk(lastOp.answer)
  /\ lastOp.calc.afterError
  /\ scoreData = BodyFull
  /\ error = ""
  /\ mounted

\* C7: no reachable state is fatal: the component can always render.
RenderNeverThrows == mounted

\* C8: a computeScore invocation with an empty url, with a calculation in
\* flight, or with the url equal to lastCalculatedUrl changes no cell and
\* sends no request.
RejectedChangesNothing ==
  [][(lastOp'.op = "computeScore" /\ (url = EmptyStr \/ isCalculating \/ url = lastCalculatedUrl))
       => UNCHANGED <<cells, mounted, posts, calcs>>]_vars

\* C8 witness: computeScore was invoked with another URL while a calculation
\* was in flight and a result and an error were on display.
RejectedChangesNothingWitness ==
  /\ lastOp.op = "computeScore"
  /\ isCalculating
  /\ url # lastCalculatedUrl
  /\ url # EmptyStr
  /\ scoreData # Null
  /\ error # ""

\* C9: for every result of the fallback path, total is the sum of the four
\* breakdown entries and breakdown.platforms is at most 15.
LocalTotalIsSum ==
  lastOp.op = "schema" =>
    /\ scoreData.total = scoreData.breakdown.recall + scoreData.breakdown.wiki
                           + scoreData.breakdown.seo + scoreData.breakdown.platforms
    /\ scoreData.breakdown.platforms <= 15

\* C9 witness: a fallback result with the largest platforms score, from the
\* largest draw and a page with the marker.
LocalTotalIsSumWitness ==
  /\ lastOp.op = "schema"
  /\ scoreData.breakdown.platforms = 14
  /\ scoreData.breakdown.wiki = 20

\* C10: for every result of the fallback path recall is in 10..34, seo in
\* 10..19, wiki is 0 or 20 and total is in 25..88.
LocalRanges ==
  lastOp.op = "schema" =>
    /\ scoreData.breakdown.recall \in 10..34
    /\ scoreData.breakdown.seo \in 10..19
    /\ scoreData.breakdown.wiki \in {0, 20}
    /\ scoreData.total \in 25..88

\* C10 witness: the fallback result with the smallest total.
LocalRangesWitness ==
  /\ lastOp.op = "schema"
  /\ scoreData.breakdown.recall = 10
  /\ scoreData.breakdown.seo = 10
  /\ scoreData.breakdown.wiki = 0
  /\ scoreData.total = 25

(***************************************************************************)
(* Identity derivation over every short input: the input field holds a     *)
(* host of at most MaxHostLen tokens, with or without the scheme, and a    *)
(* click on Calculate puts extractBrandName of it into the request body.   *)
(***************************************************************************)
\* number of tokens of the hosts the identity model draws
MaxHostLen == 6

HostTokens == {"w", "a", "."}

\* hosts whose labels are all non-empty
Hosts ==
  {h \in UNION {[1..n -> HostTokens] : n \in 1..MaxHostLen} :
     /\ h[1] # "."
     /\ h[Len(h)] # "."
     /\ \A i \in 1..(Len(h) - 1) : ~(h[i] = "." /\ h[i + 1] = ".")}

BrandInputs == Hosts \cup {<<Scheme>> \o h : h \in Hosts}

InitBrand ==
  /\ url \in BrandInputs
  /\ scoreData = Null
  /\ logoUrl = EmptyStr
  /\ isCalculating = FALSE
  /\ lastCalculatedUrl = EmptyStr
  /\ error = ""
  /\ mounted = TRUE
  /\ calcs = {}
  /\ posts = << >>
  /\ resetAt = 0
  /\ scoreUrl = EmptyStr
  /\ lastOp = Op("setUrl")

NextBrand == computeScore

SpecBrand == InitBrand /\ [][NextBrand]_vars

\* the first label of a host name after removing a "www." it starts with
FirstLabelAfterLeadingWww(h) ==
  FirstPart(IF Len(h) > Len(WwwDot) /\ SubSeq(h, 1, Len(WwwDot)) = WwwDot
            THEN SubSeq(h, Len(WwwDot) + 1, Len(h))
            ELSE h, ".")

\* C11: for every valid URL whose hostname has at least 2 labels, the brand
\* name sent to the endpoint is the first label of the hostname after removing
\* a leading "www." only.
BrandIsFirstLabel ==
  \A i \in 1..Len(posts) :
    (IsUrl(posts[i].url) /\ PartCount(Hostname(posts[i].url), ".") >= 2)
      => posts[i].brand_name = FirstLabelAfterLeadingWww(Hostname(posts[i].url))

(***************************************************************************)
(* The component with its network calls answered: every fetch that is      *)
(* outstanding resolves or rejects in the end.  The user enters the short  *)
(* inputs, the endpoint answers with one score body or rejects, and every  *)
(* draw is the smallest one.                                               *)
(***************************************************************************)
FairUrls == {EmptyStr, UrlA, Bare}

FairRemoteAnswers ==
  { [type |-> "response", ok |-> TRUE, body |-> Parsed(BodyPlain)],
    [type |-> "reject", message |-> FetchFailed] }

FairWikiAnswers == { [kind |-> "reject"], [kind |-> "pages", ids |-> <<"736">>] }

FairSchemaAnswers == {"reject", "withMarker"}

NetworkStep ==
  \/ \E c \in calcs, r \in FairRemoteAnswers : RemoteResponds(c, r, 0)
  \/ \E c \in calcs, a \in FairWikiAnswers : WikiResolves(c, a)
  \/ \E c \in calcs, a \in FairSchemaAnswers : SchemaResolves(c, a, 0, 0)

NextFair ==
  \/ \E v \in FairUrls : SetUrl(v)
  \/ computeScore
  \/ NetworkStep
  \/ resetScore

SpecFair == Init /\ [][NextFair]_vars /\ WF_vars(NetworkStep)

\* C12: every accepted calculation clears isCalculating in the end, given that
\* each of its network calls resolves or rejects.
InFlightClears == isCalculating ~> ~isCalculating

(***************************************************************************)
(* Completions of calculations that a reset has overtaken.                 *)
(***************************************************************************)
\* no calculation has been accepted since the last resetScore
NoneAcceptedSinceReset == resetAt = Len(posts)

\* C13: after resetScore the score, the logo and the error stay cleared until
\* the next calculation is accepted; a completion of a calculation started
\* before the reset does not repopulate them.
ResetStaysCleared ==
  NoneAcceptedSinceReset => (scoreData = Null /\ logoUrl = EmptyStr /\ error = "")

\* C14: whenever no calculation is in flight and the score shown was built by
\* calculateLocalScore, the error is non-empty.
FallbackShownWithError ==
  (mounted /\ ~isCalculating /\ IsLocalScore(scoreData)) => error # ""

(***************************************************************************)
(* What accepting a calculation records.                                   *)
(***************************************************************************)
\* a step that accepts a calculation leaves isCalculating set, the url of the
\* click in lastCalculatedUrl and the error empty, with the request awaiting
\* its response
AcceptSetsCells ==
  (Len(posts') > Len(posts)) =>
    /\ isCalculating'
    /\ lastCalculatedUrl' = url
    /\ error' = ""
    /\ \E c \in calcs' : c.id = Len(posts') /\ c.url = url /\ c.pc = "fetch"

\* C15 as stated: accepting computeScore(u) sets isCalculating, records
\* lastCalculatedUrl = u and clears the error before the response is known,
\* and lastCalculatedUrl equals u for as long as the calculation is in flight.
LastUrlHeldInFlight ==
  [][AcceptSetsCells /\ \A c \in calcs' : lastCalculatedUrl' = c.url]_vars

\* C15: accepting computeScore(u) sets isCalculating, records
\* lastCalculatedUrl = u and clears the error before the response is known;
\* while the calculation is in flight lastCalculatedUrl equals u until
\* resetScore is invoked, which empties it without ending the calculation.
LastUrlHeldUntilReset ==
  [][/\ AcceptSetsCells
     /\ \A c \in calcs' :
          /\ isCalculating'
          /\ lastCalculatedUrl' = (IF c.id > resetAt' THEN c.url ELSE EmptyStr)]_vars

\* a calculation accepted while an error was shown awaits its response, the
\* input has been edited since, and no reset has intervened
LastUrlHeldWitness ==
  \E c \in calcs :
    /\ c.pc = "fetch" /\ c.afterError /\ c.id > resetAt
    /\ mounted /\ isCalculating /\ error = ""
    /\ url # c.url /\ lastCalculatedUrl = c.url

(***************************************************************************)
(* Failing sub-checks of the fallback scorer.                              *)
(***************************************************************************)
\* the Wikipedia query failed in transport or answered something that is not
\* the expected JSON
WikiFailed(a) == a.kind \in {"reject", "badJson", "noQuery"}

\* the relay failed
SchemaFailed(a) == a = "reject"

\* C16: a sub-check that fails in transport or on a malformed answer is not
\* surfaced: it contributes 0 (wiki 0, no schema bonus in platforms), the
\* fallback still sets a result, and the error stays the message the failure
\* of the primary path set.
SubCheckFailureSilent ==
  [][/\ (lastOp'.op = "wiki" /\ WikiFailed(lastOp'.sub)) =>
          /\ error' = error /\ error' = CaughtMessage(lastOp'.answer)
          /\ mounted' = mounted /\ isCalculating'
          /\ \A c \in calcs' : c.pc = "schema" /\ c.wiki = 0
     /\ (lastOp'.op = "schema" /\ SchemaFailed(lastOp'.sub)) =>
          /\ error' = error /\ error' = CaughtMessage(lastOp'.answer)
          /\ IsLocalScore(scoreData')
          /\ scoreData'.wiki = lastOp'.calc.wiki
          /\ scoreData'.platforms \in PlatformBase..(PlatformBase + PlatformRange - 1)
          /\ scoreData'.total = scoreData'.recall + scoreData'.wiki + scoreData'.seo
                                + scoreData'.platforms]_vars

\* the fallback has finished after the relay failed, with nothing from
\* Wikipedia, and shows its result under the error of the primary path
SubCheckFailureWitness ==
  /\ lastOp.op = "schema" /\ SchemaFailed(lastOp.sub)
  /\ mounted /\ ~isCalculating /\ IsLocalScore(scoreData)
  /\ scoreData.wiki = 0 /\ scoreData.platforms = PlatformBase
  /\ error = QuotaExceeded

(***************************************************************************)
(* The logo shown next to a result.                                        *)
(***************************************************************************)
\* C17: in every state that shows a result, the logo is the one derived from
\* the url the result shown was computed for.
LogoMatchesResult ==
  (mounted /\ scoreData # Null) => logoUrl = fetchLogo(scoreUrl)

====
